---- MODULE Spec2Model ----
(***************************************************************************)
(* Model of radio.py: the radio daemon's shared playback state, the        *)
(* command handlers that run on independent threads without any lock, the  *)
(* mpg123 decoder subprocesses and the threads that parse their output.    *)
(*                                                                         *)
(* Every handler is split at its accesses to the shared globals, because   *)
(* the threads of the daemon can be preempted between any two of them.     *)
(***************************************************************************)
EXTENDS Integers, Sequences, FiniteSets, TLC

(* ---------------------------------------------------------------------- *)
(* Bounds and program constants                                            *)
(* ---------------------------------------------------------------------- *)

\* number of decoder subprocesses that can exist at once (slots are reused
\* once a process has exited, its pipe is drained and nobody refers to it)
MaxProcs == 2

\* number of unread output lines a decoder's pipe can hold
MaxBuf == 1

\* number of commands the clients send where the commands race (SpecRace)
MaxCmds == 2

VOLUME_STEP == 5

\* current_volume = 50, the start volume
InitVolume == 50

Stations == <<"A", "B", "C">>

\* contents of the playlist file: empty, or a prefix of the station list
PlaylistLens == {0, 2, 3}
Playlists == {SubSeq(Stations, 1, n) : n \in PlaylistLens}

None == 0
Slots == 1..MaxProcs

\* the threads that run handlers: main(), the HTTP server thread, the
\* control-socket thread and the gpiozero callback thread
Threads == {"main", "http", "ipc", "gpio"}
CmdThreads == {"http", "ipc"}

VARIABLES
    playback_state,     \* radio.py:44
    button_pressed,     \* radio.py:45
    double_click_flag,  \* radio.py:46
    current_index,      \* radio.py:49
    mpg123_proc,        \* radio.py:50  None or a slot
    current_volume,     \* radio.py:51
    current_info,       \* radio.py:52
    running,            \* radio.py:60
    playlist,           \* the playlist file on disk (PLAYLIST_PATH)
    hist,               \* history: the commands entered so far (SpecRace)
    procs,              \* the decoder subprocesses and their output pipes
    th                  \* per thread: position in its handler and locals

vars == <<playback_state, button_pressed, double_click_flag, current_index,
          mpg123_proc, current_volume, current_info, running, playlist,
          hist, procs, th>>

shared == <<playback_state, button_pressed, double_click_flag, current_index,
            mpg123_proc, current_volume, current_info, running>>

\* what lies outside the daemon
world == <<playlist, hist>>

(* ---------------------------------------------------------------------- *)
(* Pure helpers                                                            *)
(* ---------------------------------------------------------------------- *)

Max(a, b) == IF a > b THEN a ELSE b
Min(a, b) == IF a < b THEN a ELSE b

\* a clamp that forgets the upper limit
ClampLow(v) == Max(0, v)

\* set_volume's clamp: max(0, min(100, current_volume + change))
Clamp(v) == Max(0, Min(100, v))

\* the dictionary run_mpg123 installs for a new stream; "mpeg" stands for the
\* three fields (bitrate, samplerate, channels) that one output line sets
FreshInfo(url) ==
    [stream_url |-> url, title |-> "", station_name |-> "",
     station_url |-> "", mpeg |-> ""]

\* the line patterns monitor_output recognises, by the field they set
LineKinds == {"title", "station_name", "station_url", "mpeg"}

NoProc == [st |-> "none", url |-> "", buf |-> 0]

NoCmd == [v |-> "", a |-> 0]
NoResp == [ok |-> FALSE, kind |-> "", n |-> 0]
NoPre == [ps |-> FALSE, ci |-> 0, cv |-> 0, mp |-> None, st |-> "none", url |-> ""]

\* a thread that is not inside a handler
Idle ==
    [pc |-> "idle", cmd |-> NoCmd, idx |-> 0, pl |-> <<>>, url |-> "",
     w |-> None, p |-> None, ns |-> 0, ret |-> "", tmp |-> 0,
     resp |-> NoResp,
     pre |-> NoPre, alone |-> FALSE, late |-> FALSE]

\* a thread that waits for work or has ended: in accept(), in main()'s
\* sleep loop, ended by an exception, ended with its loop or the process
Resting == {"idle", "loop", "dead", "stopped", "exited"}

\* some thread still holds a reference to the Popen object of slot s
Referenced(s) ==
    \/ mpg123_proc = s
    \/ \E t \in Threads : th[t].w = s \/ th[t].p = s

\* a slot can hold a new process once its old one is gone for good
FreeSlot(s) ==
    /\ procs[s].st \in {"none", "exited"}
    /\ procs[s].buf = 0
    /\ ~Referenced(s)

\* the playback state a handler starts from: the flag, the station index,
\* the volume, the decoder handle with the state of its process, and the
\* stream the metadata belongs to
Snapshot ==
    [ps |-> playback_state, ci |-> current_index, cv |-> current_volume,
     mp |-> mpg123_proc,
     st |-> IF mpg123_proc = None THEN "none" ELSE procs[mpg123_proc].st,
     url |-> current_info.stream_url]

(* ---------------------------------------------------------------------- *)
(* Initial state: the module globals of radio.py and main() about to call  *)
(* play_stream(current_index); the listeners are already running.          *)
(* ---------------------------------------------------------------------- *)

Init ==
    /\ playback_state = TRUE
    /\ button_pressed = FALSE
    /\ double_click_flag = FALSE
    /\ current_index = 0
    /\ mpg123_proc = None
    /\ current_volume = InitVolume
    /\ current_info = [stream_url |-> "", title |-> "", station_name |-> "",
                       station_url |-> "", mpeg |-> ""]
    /\ running = TRUE
    /\ playlist \in Playlists
    /\ hist = <<>>
    /\ procs = [s \in Slots |-> NoProc]
    /\ th = [t \in Threads |->
               IF t = "main"
               THEN [Idle EXCEPT !.pc = "ps_call", !.cmd = [v |-> "startup", a |-> 0],
                                 !.ret = "main_vol"]
               ELSE Idle]

(* ---------------------------------------------------------------------- *)
(* Thread bookkeeping                                                      *)
(* ---------------------------------------------------------------------- *)

Ok(kind, n) == [ok |-> TRUE, kind |-> kind, n |-> n]
Err(kind) == [ok |-> FALSE, kind |-> kind, n |-> 0]

\* thread t continues as r; nobody else moves
SetTh(t, r) == th' = [th EXCEPT ![t] = r]

\* thread t enters a handler as r. History for the properties: the handler
\* runs alone iff every other thread is at rest now, and then pre is the
\* state it started from; every handler already running stops being alone;
\* late says that running was false already when the handler was entered
Enter(t, r) ==
    th' = [u \in Threads |->
             IF u = t
             THEN IF \A x \in Threads \ {t} : th[x].pc \in Resting
                  THEN [r EXCEPT !.pre = Snapshot, !.alone = TRUE, !.late = ~running]
                  ELSE [r EXCEPT !.late = ~running]
             ELSE [th[u] EXCEPT !.pre = NoPre, !.alone = FALSE]]

\* the handler of thread t is over: process_command returns resp to the HTTP
\* handler or socket loop, a hardware callback just ends, main() goes on to
\* its `while running` loop
Finish(t, r, resp) ==
    IF t \in CmdThreads THEN [r EXCEPT !.pc = "done", !.resp = resp]
    ELSE IF t = "main" THEN [Idle EXCEPT !.pc = "loop"]
    ELSE Idle

\* play_stream returns to its caller
Return(t, r) ==
    CASE r.ret = "station_resp" -> Finish(t, r, Ok("station", r.cmd.a))
      [] r.ret = "end" -> Finish(t, r, NoResp)
      [] OTHER -> [r EXCEPT !.pc = r.ret]

\* play_stream(index), lines 417-420: read the playlist, give up if it is empty
PlayStreamCall(t, r, index, ret) ==
    IF playlist = <<>>
    THEN Return(t, [r EXCEPT !.ret = ret])
    ELSE [r EXCEPT !.pc = "ps_write", !.idx = index, !.pl = playlist, !.ret = ret]

\* toggle_play_pause returns to its caller
AfterToggle(t, r) ==
    CASE r.cmd.v = "play" -> Finish(t, r, Ok("play", 0))
      [] r.cmd.v = "stop" -> Finish(t, r, Ok("stop", 0))
      [] r.cmd.v = "pause" -> [r EXCEPT !.pc = "pause_resp"]
      [] OTHER -> Finish(t, r, NoResp)

(* ---------------------------------------------------------------------- *)
(* Decoder subprocesses and their output                                   *)
(* ---------------------------------------------------------------------- *)

\* Popen.terminate(): SIGTERM to a running process; no effect on one that
\* has exited already
Signalled(s) ==
    [procs EXCEPT ![s].st = IF @ = "live" THEN "term" ELSE @]

\* Popen.wait() returning: the process is reaped; its record is dropped once
\* its pipe is empty too
Reaped(s) ==
    [procs EXCEPT ![s] = IF @.buf = 0 THEN NoProc ELSE [@ EXCEPT !.st = "none"]]

\* a signalled mpg123 exits
ProcExit(s) ==
    /\ procs[s].st = "term"
    /\ procs' = [procs EXCEPT ![s].st = "exited"]
    /\ UNCHANGED <<shared, world, th>>

\* a running mpg123 exits on its own: the stream ended or it crashed
ProcDie(s) ==
    /\ procs[s].st = "live"
    /\ procs' = [procs EXCEPT ![s].st = "exited"]
    /\ UNCHANGED <<shared, world, th>>

\* a running mpg123 stops reacting to SIGTERM (it is stopped, or blocked in
\* the kernel): from then on only SIGKILL ends it
ProcHang(s) ==
    /\ procs[s].st = "live"
    /\ procs' = [procs EXCEPT ![s].st = "deaf"]
    /\ UNCHANGED <<shared, world, th>>

\* a running mpg123 prints a line into its pipe
ProcEmit(s) ==
    /\ procs[s].st = "live"
    /\ procs[s].buf < MaxBuf
    /\ procs' = [procs EXCEPT ![s].buf = @ + 1]
    /\ UNCHANGED <<shared, world, th>>

\* the value monitor_output stores for a line of kind k printed by slot s:
\* the text of the line, which names the station that printed it
LineValue(s, k) == procs[s].url

\* monitor_output, lines 369-388: the thread started for slot s reads one
\* line of that process's pipe and stores it in the global current_info
MonitorRead(s, k) ==
    /\ procs[s].buf > 0
    /\ running
    /\ procs' = [procs EXCEPT ![s] =
                   IF @.buf = 1 /\ @.st = "none" THEN NoProc
                   ELSE [@ EXCEPT !.buf = @ - 1]]
    /\ current_info' = IF k \in LineKinds
                       THEN [current_info EXCEPT ![k] = LineValue(s, k)]
                       ELSE current_info
    /\ UNCHANGED <<playback_state, button_pressed, double_click_flag,
                   current_index, mpg123_proc, current_volume, running,
                   world, th>>

\* the playlist file is edited
EditPlaylist(pl) ==
    /\ pl # playlist
    /\ playlist' = pl
    /\ UNCHANGED <<shared, hist, procs, th>>

(* ---------------------------------------------------------------------- *)
(* play_stream, lines 414-430, and run_mpg123, lines 342-391               *)
(* ---------------------------------------------------------------------- *)

\* an exception leaves the handler: the socket loop logs it and ends
\* (line 624-627), do_GET answers 500 (line 105-107), main() goes to its
\* finally block, a hardware callback is abandoned
Raise(t, r) ==
    CASE t = "ipc" -> [r EXCEPT !.pc = "dead", !.resp = Err("exception")]
      [] t = "http" -> Finish(t, r, Err("exception"))
      [] t = "main" -> [Idle EXCEPT !.pc = "cl_run", !.ret = "exit"]
      [] OTHER -> Idle

\* the caller evaluates current_index (+1, -1 or +0) and play_stream reads
\* the playlist
PsCall(t) ==
    /\ th[t].pc = "ps_call"
    /\ SetTh(t, PlayStreamCall(t, th[t], current_index + th[t].idx, th[t].ret))
    /\ UNCHANGED <<shared, world, procs>>

\* an index that stops at the ends of the playlist instead of wrapping
NewIndexSat(index, len) ==
    IF index >= len THEN len - 1 ELSE IF index < 0 THEN 0 ELSE index

\* current_index = index % len(playlist)
NewIndex(index, len) == index % len

PsWrite(t) ==
    /\ th[t].pc = "ps_write"
    /\ current_index' = NewIndex(th[t].idx, Len(th[t].pl))
    /\ SetTh(t, [th[t] EXCEPT !.pc = "ps_url"])
    /\ UNCHANGED <<playback_state, button_pressed, double_click_flag,
                   mpg123_proc, current_volume, current_info, running,
                   world, procs>>

\* url = playlist[current_index]: the global is read again
PsUrl(t) ==
    /\ th[t].pc = "ps_url"
    /\ SetTh(t, IF current_index < Len(th[t].pl)
                THEN [th[t] EXCEPT !.pc = "ps_chk", !.url = th[t].pl[current_index + 1]]
                ELSE Raise(t, th[t]))
    /\ UNCHANGED <<shared, world, procs>>

\* if mpg123_proc:
PsChk(t) ==
    /\ th[t].pc = "ps_chk"
    /\ SetTh(t, [th[t] EXCEPT !.pc = IF mpg123_proc = None THEN "ps_reset" ELSE "ps_term"])
    /\ UNCHANGED <<shared, world, procs>>

\* mpg123_proc.terminate()
PsTerm(t) ==
    /\ th[t].pc = "ps_term"
    /\ procs' = Signalled(mpg123_proc)
    /\ SetTh(t, [th[t] EXCEPT !.pc = "ps_wait0"])
    /\ UNCHANGED <<shared, world>>

\* mpg123_proc.wait(): the global is read once more, then the call blocks
PsWait0(t) ==
    /\ th[t].pc = "ps_wait0"
    /\ SetTh(t, [th[t] EXCEPT !.pc = "ps_wait", !.w = mpg123_proc])
    /\ UNCHANGED <<shared, world, procs>>

PsWait(t) ==
    /\ th[t].pc = "ps_wait"
    /\ procs[th[t].w].st \in {"exited", "none"}
    /\ procs' = Reaped(th[t].w)
    /\ SetTh(t, [th[t] EXCEPT !.pc = "ps_reset", !.w = None])
    /\ UNCHANGED <<shared, world>>

\* run_mpg123: current_info = {...}
PsReset(t) ==
    /\ th[t].pc = "ps_reset"
    /\ current_info' = FreshInfo(th[t].url)
    /\ SetTh(t, [th[t] EXCEPT !.pc = "ps_spawn"])
    /\ UNCHANGED <<playback_state, button_pressed, double_click_flag,
                   current_index, mpg123_proc, current_volume, running,
                   world, procs>>

\* run_mpg123: subprocess.Popen and the start of its monitor thread
PsSpawn(t) ==
    /\ th[t].pc = "ps_spawn"
    /\ \E s \in Slots :
         /\ FreeSlot(s)
         /\ \A s2 \in Slots : FreeSlot(s2) => s <= s2
         /\ procs' = [procs EXCEPT ![s] = [st |-> "live", url |-> th[t].url, buf |-> 0]]
         /\ SetTh(t, [th[t] EXCEPT !.pc = "ps_assign", !.p = s, !.ns = @ + 1])
    /\ UNCHANGED <<shared, world>>

\* run_mpg123: subprocess.Popen raises (mpg123 cannot be executed, no
\* process or descriptor is left); the exception leaves play_stream
PsSpawnFail(t) ==
    /\ th[t].pc = "ps_spawn"
    /\ SetTh(t, Raise(t, th[t]))
    /\ UNCHANGED <<shared, world, procs>>

\* mpg123_proc = run_mpg123(url), and play_stream returns
PsAssign(t) ==
    /\ th[t].pc = "ps_assign"
    /\ mpg123_proc' = th[t].p
    /\ SetTh(t, Return(t, th[t]))
    /\ UNCHANGED <<playback_state, button_pressed, double_click_flag,
                   current_index, current_volume, current_info, running,
                   world, procs>>

(* ---------------------------------------------------------------------- *)
(* toggle_play_pause, lines 432-445                                        *)
(* ---------------------------------------------------------------------- *)

\* if mpg123_proc is None: play_stream(current_index)
TgProc(t) ==
    /\ th[t].pc = "tg_proc"
    /\ SetTh(t, IF mpg123_proc = None
                THEN [th[t] EXCEPT !.pc = "ps_call", !.idx = 0, !.ret = "tg_set"]
                ELSE [th[t] EXCEPT !.pc = "tg_state"])
    /\ UNCHANGED <<shared, world, procs>>

\* else: if playback_state: ... else: play_stream(current_index)
TgState(t) ==
    /\ th[t].pc = "tg_state"
    /\ SetTh(t, IF playback_state
                THEN [th[t] EXCEPT !.pc = "tg_term"]
                ELSE [th[t] EXCEPT !.pc = "ps_call", !.idx = 0, !.ret = "tg_set"])
    /\ UNCHANGED <<shared, world, procs>>

\* mpg123_proc.terminate(), with no wait() after it
TgTerm(t) ==
    /\ th[t].pc = "tg_term"
    /\ procs' = Signalled(mpg123_proc)
    /\ SetTh(t, [th[t] EXCEPT !.pc = "tg_clear"])
    /\ UNCHANGED <<shared, world>>

\* playback_state = False
TgClear(t) ==
    /\ th[t].pc = "tg_clear"
    /\ playback_state' = FALSE
    /\ SetTh(t, AfterToggle(t, th[t]))
    /\ UNCHANGED <<button_pressed, double_click_flag, current_index,
                   mpg123_proc, current_volume, current_info, running,
                   world, procs>>

\* a toggle that forgets to mark playback as running
TgSetSkip(t) ==
    /\ th[t].pc = "tg_set"
    /\ SetTh(t, AfterToggle(t, th[t]))
    /\ UNCHANGED <<shared, world, procs>>

\* playback_state = True, after play_stream has returned (lines 436, 444
\* and 503)
TgSet(t) ==
    /\ th[t].pc = "tg_set"
    /\ playback_state' = TRUE
    /\ SetTh(t, AfterToggle(t, th[t]))
    /\ UNCHANGED <<button_pressed, double_click_flag, current_index,
                   mpg123_proc, current_volume, current_info, running,
                   world, procs>>

(* ---------------------------------------------------------------------- *)
(* set_volume, lines 405-412                                               *)
(* ---------------------------------------------------------------------- *)

\* the right-hand side max(0, min(100, current_volume + change)); th.tmp is
\* the change before this step and the clamped value after it
SvRead(t) ==
    /\ th[t].pc = "sv_read"
    /\ SetTh(t, [th[t] EXCEPT !.pc = "sv_write", !.tmp = Clamp(current_volume + th[t].tmp)])
    /\ UNCHANGED <<shared, world, procs>>

\* the store into current_volume; amixer is then run, whatever it answers
SvWrite(t) ==
    /\ th[t].pc = "sv_write"
    /\ current_volume' = th[t].tmp
    /\ SetTh(t, IF t \in CmdThreads THEN [th[t] EXCEPT !.pc = "vol_resp"]
                ELSE Finish(t, th[t], NoResp))
    /\ UNCHANGED <<playback_state, button_pressed, double_click_flag,
                   current_index, mpg123_proc, current_info, running,
                   world, procs>>

(* ---------------------------------------------------------------------- *)
(* process_command, lines 514-602                                          *)
(* ---------------------------------------------------------------------- *)

\* the characters of a command's argument; a token is a sequence of them
Digits == {"0", "1", "2", "3", "4", "5", "6", "7", "8", "9"}

DigitVal(ch) ==
    CASE ch = "0" -> 0 [] ch = "1" -> 1 [] ch = "2" -> 2 [] ch = "3" -> 3
      [] ch = "4" -> 4 [] ch = "5" -> 5 [] ch = "6" -> 6 [] ch = "7" -> 7
      [] ch = "8" -> 8 [] ch = "9" -> 9

\* the number a non-empty sequence of digits denotes
RECURSIVE DigitsVal(_)
DigitsVal(ds) ==
    IF ds = <<>> THEN 0
    ELSE 10 * DigitsVal(SubSeq(ds, 1, Len(ds) - 1)) + DigitVal(ds[Len(ds)])

\* the part of a token after its optional sign
Unsigned(tok) ==
    IF tok # <<>> /\ tok[1] \in {"+", "-"} THEN Tail(tok) ELSE tok

\* int(tok) returns: an optional sign and then one or more digits; anything
\* else is a ValueError
IntOk(tok) ==
    /\ Unsigned(tok) # <<>>
    /\ \A i \in 1..Len(Unsigned(tok)) : Unsigned(tok)[i] \in Digits

\* the value int(tok) returns
IntVal(tok) ==
    IF tok[1] = "-" THEN 0 - DigitsVal(Unsigned(tok)) ELSE DigitsVal(Unsigned(tok))

\* a command as it is received: its first word, "" for a blank command, and
\* its second word, <<>> if there is none
Raw(verb, arg) == [verb |-> verb, arg |-> arg]

\* a dispatch that takes info for one more alias of next
VerbLoose(w) ==
    CASE w \in {"play", "p"} -> "play"
      [] w \in {"stop", "s"} -> "stop"
      [] w = "pause" -> "pause"
      [] w \in {"next", "n", "info"} -> "next"
      [] w \in {"prev", "previous"} -> "prev"
      [] w = "station" -> "station"
      [] w \in {"volume", "v"} -> "volume"
      [] w \in {"status", "list"} -> w
      [] w \in {"quit", "exit"} -> "quit"
      [] w = "" -> "empty"
      [] OTHER -> "unknown"

\* cmd = parts[0].lower() and its aliases
Verb(w) ==
    CASE w \in {"play", "p"} -> "play"
      [] w \in {"stop", "s"} -> "stop"
      [] w = "pause" -> "pause"
      [] w \in {"next", "n"} -> "next"
      [] w \in {"prev", "previous"} -> "prev"
      [] w = "station" -> "station"
      [] w \in {"volume", "v"} -> "volume"
      [] w \in {"status", "info", "list"} -> w
      [] w \in {"quit", "exit"} -> "quit"
      [] w = "" -> "empty"
      [] OTHER -> "unknown"

\* the branch of process_command a received command takes and the number
\* it converts its argument to
Parse(raw) ==
    LET v == Verb(raw.verb)
        arg == raw.arg
    IN  CASE v = "station" ->
               IF arg = <<>> THEN [v |-> "station?", a |-> 0]
               ELSE IF IntOk(arg) THEN [v |-> "station", a |-> IntVal(arg)]
               ELSE [v |-> "station_nan", a |-> 0]
          [] v = "volume" ->
               IF arg = <<>> THEN [v |-> "volume?", a |-> 0]
               ELSE IF arg[1] = "+"
                    THEN IF IntOk(Tail(arg)) THEN [v |-> "vol+", a |-> IntVal(Tail(arg))]
                         ELSE [v |-> "volume_nan", a |-> 0]
               ELSE IF arg[1] = "-"
                    THEN IF IntOk(Tail(arg)) THEN [v |-> "vol-", a |-> IntVal(Tail(arg))]
                         ELSE [v |-> "volume_nan", a |-> 0]
               ELSE IF IntOk(arg) THEN [v |-> "vol=", a |-> IntVal(arg)]
               ELSE [v |-> "volume_nan", a |-> 0]
          [] OTHER -> [v |-> v, a |-> 0]

\* a station check that lets index -1 through
ValidIndexLax(index) == index >= 0 - 1

\* if index >= 0:
ValidIndex(index) == index >= 0

\* the handler's first step for command c, up to its first access to a
\* global that another thread may change in between
Handle(t, c) ==
    LET r == [Idle EXCEPT !.cmd = c] IN
    CASE c.v = "play" ->
           IF ~playback_state THEN [r EXCEPT !.pc = "tg_proc"]
           ELSE Finish(t, r, Ok("play", 0))
      [] c.v = "stop" ->
           IF playback_state THEN [r EXCEPT !.pc = "tg_proc"]
           ELSE Finish(t, r, Ok("stop", 0))
      [] c.v = "pause" -> [r EXCEPT !.pc = "tg_proc"]
      [] c.v = "next" -> PlayStreamCall(t, r, current_index + 1, "idx_resp")
      [] c.v = "prev" -> PlayStreamCall(t, r, current_index - 1, "idx_resp")
      [] c.v = "station" ->
           IF ValidIndex(c.a - 1) THEN PlayStreamCall(t, r, c.a - 1, "station_resp")
           ELSE Finish(t, r, Err("station"))
      [] c.v = "station_nan" -> Finish(t, r, Err("station_nan"))
      [] c.v = "station?" -> Finish(t, r, Ok("station?", current_index + 1))
      [] c.v = "vol+" -> [r EXCEPT !.pc = "sv_read", !.tmp = c.a]
      [] c.v = "vol-" -> [r EXCEPT !.pc = "sv_read", !.tmp = -c.a]
      [] c.v = "vol=" -> [r EXCEPT !.pc = "sv_read", !.tmp = c.a - current_volume]
      [] c.v = "volume_nan" -> Finish(t, r, Err("volume_nan"))
      [] c.v = "volume?" -> Finish(t, r, Ok("volume?", current_volume))
      [] c.v = "status" -> Finish(t, r, Ok("status", current_index + 1))
      [] c.v = "info" -> Finish(t, r, Ok("info", 0))
      [] c.v = "list" -> Finish(t, r, Ok("list", Len(playlist)))
      [] c.v = "quit" -> [r EXCEPT !.pc = "quit_set"]
      [] c.v = "empty" -> Finish(t, r, Err("empty"))
      [] OTHER -> Finish(t, r, Err("unknown"))

\* a client's command arrives at the HTTP handler or the socket loop
Dispatch(t, c) ==
    /\ th[t].pc = "idle"
    /\ Enter(t, Handle(t, c))
    /\ UNCHANGED <<shared, world, procs>>

\* the exchange with a client fails: recv, decode or send raises. The socket
\* loop logs the exception and ends; the HTTP server drops the request and
\* serves the next one
ExchangeFail(t) ==
    /\ th[t].pc \in (IF t = "ipc" THEN {"idle", "done"} ELSE {"done"})
    /\ SetTh(t, IF t = "ipc" THEN [th[t] EXCEPT !.pc = "dead"] ELSE Idle)
    /\ UNCHANGED <<shared, world, procs>>

\* a client's command arrives as text and is split and converted first
Receive(t, raw) == Dispatch(t, Parse(raw))

\* the same, as one of the first MaxCmds commands, which are recorded
RaceDispatch(t, c) ==
    /\ th[t].pc = "idle"
    /\ Len(hist) < MaxCmds
    /\ Enter(t, Handle(t, c))
    /\ hist' = Append(hist, c)
    /\ UNCHANGED <<shared, playlist, procs>>

\* f"OK: {'Pause' if not playback_state else 'Play'}"
PauseResp(t) ==
    /\ th[t].pc = "pause_resp"
    /\ SetTh(t, Finish(t, th[t], Ok("pause", IF playback_state THEN 1 ELSE 0)))
    /\ UNCHANGED <<shared, world, procs>>

\* f"OK: Nächster Stream ({current_index + 1})" and its prev twin
IdxResp(t) ==
    /\ th[t].pc = "idx_resp"
    /\ SetTh(t, Finish(t, th[t], Ok(th[t].cmd.v, current_index + 1)))
    /\ UNCHANGED <<shared, world, procs>>

\* a response that echoes the requested number
VolRespArg(t) ==
    /\ th[t].pc = "vol_resp"
    /\ SetTh(t, Finish(t, th[t], Ok("volume", th[t].cmd.a)))
    /\ UNCHANGED <<shared, world, procs>>

\* f"OK: Lautstärke: {current_volume}%"
VolResp(t) ==
    /\ th[t].pc = "vol_resp"
    /\ SetTh(t, Finish(t, th[t], Ok("volume", current_volume)))
    /\ UNCHANGED <<shared, world, procs>>

\* running = False
QuitSet(t) ==
    /\ th[t].pc = "quit_set"
    /\ running' = FALSE
    /\ SetTh(t, Finish(t, th[t], Ok("quit", 0)))
    /\ UNCHANGED <<playback_state, button_pressed, double_click_flag,
                   current_index, mpg123_proc, current_volume, current_info,
                   world, procs>>

\* the response is sent and the thread waits for the next client; the
\* socket loop tests `while running` first and ends when it is false
Reply(t) ==
    /\ th[t].pc = "done"
    /\ SetTh(t, IF t = "ipc" /\ ~running THEN [Idle EXCEPT !.pc = "stopped"] ELSE Idle)
    /\ UNCHANGED <<shared, world, procs>>

(* ---------------------------------------------------------------------- *)
(* Hardware callbacks, lines 468-503                                       *)
(* ---------------------------------------------------------------------- *)

GpioCmd(v, a) == [Idle EXCEPT !.cmd = [v |-> v, a |-> a]]

\* on_rotate with the button held: play_stream(current_index +/- 1)
OnRotateStation(d) ==
    /\ th["gpio"].pc = "idle"
    /\ button_pressed
    /\ Enter("gpio", PlayStreamCall("gpio", GpioCmd("rotate", d), current_index + d, "end"))
    /\ UNCHANGED <<shared, world, procs>>

\* on_rotate with the button up: set_volume(+/- VOLUME_STEP)
OnRotateVolume(d) ==
    /\ th["gpio"].pc = "idle"
    /\ ~button_pressed
    /\ Enter("gpio", [GpioCmd("rotate", d) EXCEPT !.pc = "sv_read", !.tmp = d * VOLUME_STEP])
    /\ UNCHANGED <<shared, world, procs>>

\* on_button_pressed; quick says that the last press was under 0.5 s ago
OnButtonPressed(quick) ==
    /\ th["gpio"].pc = "idle"
    /\ IF quick
       THEN /\ double_click_flag' = TRUE
            /\ Enter("gpio", [GpioCmd("press", 0) EXCEPT !.pc = "tg_proc"])
            /\ UNCHANGED button_pressed
       ELSE /\ button_pressed' = TRUE
            /\ UNCHANGED <<double_click_flag, th>>
    /\ UNCHANGED <<playback_state, current_index, mpg123_proc, current_volume,
                   current_info, running, world, procs>>

\* on_button_released
OnButtonReleased ==
    /\ th["gpio"].pc = "idle"
    /\ IF double_click_flag
       THEN double_click_flag' = FALSE /\ UNCHANGED button_pressed
       ELSE button_pressed' = FALSE /\ UNCHANGED double_click_flag
    /\ UNCHANGED <<playback_state, current_index, mpg123_proc, current_volume,
                   current_info, running, world, procs, th>>

\* on_alarm_released: if not playback_state: play_stream(current_index) ...
OnAlarmReleased ==
    /\ th["gpio"].pc = "idle"
    /\ ~playback_state
    /\ Enter("gpio", [GpioCmd("alarm", 0) EXCEPT !.pc = "ps_call", !.idx = 0, !.ret = "tg_set"])
    /\ UNCHANGED <<shared, world, procs>>

(* ---------------------------------------------------------------------- *)
(* main, lines 720-732                                                     *)
(* ---------------------------------------------------------------------- *)

\* set_volume(current_volume): the argument is the current volume
MainVol ==
    /\ th["main"].pc = "main_vol"
    /\ SetTh("main", [th["main"] EXCEPT !.pc = "sv_read", !.tmp = current_volume])
    /\ UNCHANGED <<shared, world, procs>>

\* while running: the loop of main() ends and its finally block calls
\* cleanup()
MainLoopExit ==
    /\ th["main"].pc = "loop"
    /\ ~running
    /\ SetTh("main", [Idle EXCEPT !.pc = "cl_run", !.ret = "exit"])
    /\ UNCHANGED <<shared, world, procs>>

\* SIGINT or SIGTERM arrives while main() sleeps in its loop: signal_handler
\* calls cleanup() and then sys.exit(0), whose SystemExit passes through the
\* finally block of main(), which calls cleanup() once more
Signal ==
    /\ th["main"].pc = "loop"
    /\ SetTh("main", [Idle EXCEPT !.pc = "cl_run", !.ret = "sig_exit"])
    /\ UNCHANGED <<shared, world, procs>>

(* ---------------------------------------------------------------------- *)
(* cleanup, lines 631-651, on the main thread                              *)
(* ---------------------------------------------------------------------- *)

\* a cleanup that flips the flag instead of clearing it
ClRunFlip ==
    /\ th["main"].pc = "cl_run"
    /\ running' = ~running
    /\ SetTh("main", [th["main"] EXCEPT !.pc = "cl_chk"])
    /\ UNCHANGED <<playback_state, button_pressed, double_click_flag,
                   current_index, mpg123_proc, current_volume, current_info,
                   world, procs>>

\* running = False
ClRun ==
    /\ th["main"].pc = "cl_run"
    /\ running' = FALSE
    /\ SetTh("main", [th["main"] EXCEPT !.pc = "cl_chk"])
    /\ UNCHANGED <<playback_state, button_pressed, double_click_flag,
                   current_index, mpg123_proc, current_volume, current_info,
                   world, procs>>

\* if mpg123_proc:
ClChk ==
    /\ th["main"].pc = "cl_chk"
    /\ SetTh("main", [th["main"] EXCEPT
                        !.pc = IF mpg123_proc = None THEN "cl_sock" ELSE "cl_term"])
    /\ UNCHANGED <<shared, world, procs>>

\* mpg123_proc.terminate()
ClTerm ==
    /\ th["main"].pc = "cl_term"
    /\ procs' = Signalled(mpg123_proc)
    /\ SetTh("main", [th["main"] EXCEPT !.pc = "cl_wait0"])
    /\ UNCHANGED <<shared, world>>

\* mpg123_proc.wait(): the global is read once more, then the call blocks
ClWait0 ==
    /\ th["main"].pc = "cl_wait0"
    /\ SetTh("main", [th["main"] EXCEPT !.pc = "cl_wait", !.w = mpg123_proc])
    /\ UNCHANGED <<shared, world, procs>>

ClWait ==
    /\ th["main"].pc = "cl_wait"
    /\ procs[th["main"].w].st \in {"exited", "none"}
    /\ procs' = Reaped(th["main"].w)
    /\ SetTh("main", [th["main"] EXCEPT !.pc = "cl_sock", !.w = None])
    /\ UNCHANGED <<shared, world>>

\* control_socket.close(): a socket thread waiting in accept() gets no
\* further client; one that is busy finishes its command and then finds
\* running false
ClSock ==
    /\ th["main"].pc = "cl_sock"
    /\ th' = [th EXCEPT !["main"].pc = "cl_api",
                        !["ipc"] = IF @.pc = "idle" THEN [Idle EXCEPT !.pc = "stopped"] ELSE @]
    /\ UNCHANGED <<shared, world, procs>>

\* api_server.shutdown() blocks until serve_forever has finished the request
\* it is handling and left its loop. Then the socket and PID files are
\* removed and cleanup returns: to signal_handler, which raises SystemExit
\* and so reaches the finally block of main(), or to that finally block,
\* after which the process ends and all its threads with it
ClApi ==
    /\ th["main"].pc = "cl_api"
    /\ th["http"].pc \in {"idle", "stopped"}
    /\ th' = IF th["main"].ret = "sig_exit"
             THEN [th EXCEPT !["main"] = [Idle EXCEPT !.pc = "cl_run", !.ret = "exit_again"],
                             !["http"] = [Idle EXCEPT !.pc = "stopped"]]
             ELSE [t \in Threads |->
                     [Idle EXCEPT !.pc = IF t = "main" THEN "exited" ELSE "stopped"]]
    /\ UNCHANGED <<shared, world, procs>>

\* the steps of cleanup()
CleanupStep ==
    \/ ClRun
    \/ ClChk
    \/ ClTerm
    \/ ClWait0
    \/ ClWait
    \/ ClSock
    \/ ClApi

(* ---------------------------------------------------------------------- *)
(* Specifications                                                          *)
(* ---------------------------------------------------------------------- *)

Cmd(v, a) == [v |-> v, a |-> a]

StationArgs == {0, 1, 2, 4}
PlayCmds ==
    {Cmd(v, 0) : v \in {"play", "stop", "pause", "next", "prev"}}
        \cup {Cmd("station", n) : n \in StationArgs}

\* main() has reached its `while running` loop
Started == th["main"].pc = "loop"

\* no other thread is inside a handler
Serial(t) == \A x \in Threads \ {t} : th[x].pc \in Resting

\* the steps of play_stream and toggle_play_pause, on any thread
PlaybackStep ==
    \/ \E t \in Threads : PsCall(t)
    \/ \E t \in Threads : PsWrite(t)
    \/ \E t \in Threads : PsUrl(t)
    \/ \E t \in Threads : PsChk(t)
    \/ \E t \in Threads : PsTerm(t)
    \/ \E t \in Threads : PsWait0(t)
    \/ \E t \in Threads : PsWait(t)
    \/ \E t \in Threads : PsReset(t)
    \/ \E t \in Threads : PsSpawn(t)
    \/ \E t \in Threads : PsAssign(t)
    \/ \E t \in Threads : TgProc(t)
    \/ \E t \in Threads : TgState(t)
    \/ \E t \in Threads : TgTerm(t)
    \/ \E t \in Threads : TgClear(t)
    \/ \E t \in Threads : TgSet(t)
    \/ \E t \in CmdThreads : PauseResp(t)
    \/ \E t \in CmdThreads : IdxResp(t)
    \/ \E t \in CmdThreads : Reply(t)
    \/ \E s \in Slots : ProcExit(s)

\* main() after play_stream: set_volume(current_volume)
MainStep ==
    \/ MainVol
    \/ SvRead("main")
    \/ SvWrite("main")

\* Spec: every playback command and hardware callback, the playlist file
\* changing under them, handlers entered one at a time
Next ==
    \/ \E t \in CmdThreads, c \in PlayCmds : Serial(t) /\ Dispatch(t, c)
    \/ \E d \in {1, -1} : Serial("gpio") /\ OnRotateStation(d)
    \/ \E q \in BOOLEAN : Serial("gpio") /\ OnButtonPressed(q)
    \/ Serial("gpio") /\ OnButtonReleased
    \/ Serial("gpio") /\ OnAlarmReleased
    \/ PlaybackStep
    \/ MainStep
    \/ \E pl \in Playlists : EditPlaylist(pl)

Spec == Init /\ [][Next]_vars

\* SpecRace: the first MaxCmds commands of the two command threads, each
\* entered at any time once main() has started up
RaceCmds ==
    {Cmd(v, 0) : v \in {"play", "stop", "pause", "next", "prev"}}
        \cup {Cmd("station", 2), Cmd("vol+", 10), Cmd("vol+", 1000), Cmd("vol-", 10)}

NextRace ==
    \/ \E t \in CmdThreads, c \in RaceCmds : Started /\ RaceDispatch(t, c)
    \/ PlaybackStep
    \/ MainStep
    \/ \E t \in CmdThreads : SvRead(t)
    \/ \E t \in CmdThreads : SvWrite(t)
    \/ \E t \in CmdThreads : VolResp(t)

SpecRace == Init /\ [][NextRace]_vars

\* SpecVol: the volume commands of the socket thread and the volume knob,
\* entered at any time once main() has started up
VolCmds ==
    {Cmd("vol+", k) : k \in {10, 50, 1000}}
        \cup {Cmd("vol-", k) : k \in {10, 1000}}
        \cup {Cmd("vol=", k) : k \in {0, 60, 150}}

NextVol ==
    \/ \E c \in VolCmds : Started /\ Dispatch("ipc", c)
    \/ \E d \in {1, -1} : Started /\ OnRotateVolume(d)
    \/ \E t \in {"ipc", "gpio"} : SvRead(t)
    \/ \E t \in {"ipc", "gpio"} : SvWrite(t)
    \/ VolResp("ipc")
    \/ Reply("ipc")
    \/ PsCall("main")
    \/ PsWrite("main")
    \/ PsUrl("main")
    \/ PsChk("main")
    \/ PsReset("main")
    \/ PsSpawn("main")
    \/ PsAssign("main")
    \/ MainStep

SpecVol == Init /\ [][NextVol]_vars

\* SpecMeta: stations are switched and playback toggled while the decoders
\* print and their monitor threads parse
MetaCmds == {Cmd("next", 0), Cmd("pause", 0)}

NextMeta ==
    \/ \E c \in MetaCmds : Serial("ipc") /\ Dispatch("ipc", c)
    \/ PlaybackStep
    \/ MainStep
    \/ \E s \in Slots : ProcEmit(s)
    \/ \E s \in Slots, k \in LineKinds \cup {"other"} : MonitorRead(s, k)

SpecMeta == Init /\ [][NextMeta]_vars

\* SpecCmd: commands arrive as text, well-formed or not, one at a time
ArgTokens ==
    {<<"0">>, <<"1">>, <<"5", "0">>, <<"+", "5", "0">>, <<"-", "5", "0">>,
     <<"x">>, <<"1", "x">>, <<"+", "x">>, <<"-", "x">>,
     <<"+">>, <<"-">>}

\* the commands the HTTP handlers build (lines 181-216); /api/status,
\* /api/info and /api/stations read the same globals as status, info, list
HttpWords == {"play", "stop", "pause", "next", "prev", "volume", "station",
              "status", "info", "list"}

RawCmds ==
    {Raw(w, <<>>) : w \in {"", "bogus", "pause", "next", "n", "station",
                           "volume", "v", "status", "info", "list"}}
        \cup {Raw(w, a) : w \in {"station", "volume"}, a \in ArgTokens}

NextCmd ==
    \/ \E t \in CmdThreads, raw \in RawCmds :
         /\ Serial(t)
         /\ t = "http" => raw.verb \in HttpWords
         /\ Receive(t, raw)
    \/ PlaybackStep
    \/ MainStep
    \/ \E t \in CmdThreads : SvRead(t)
    \/ \E t \in CmdThreads : SvWrite(t)
    \/ \E t \in CmdThreads : VolResp(t)

SpecCmd == Init /\ [][NextCmd]_vars

\* SpecQuit: quit, a signal and the shutdown they start, with commands that
\* keep arriving; main() runs beside the handlers, which are entered one at
\* a time once main() has started up
QuitCmds == {Cmd("quit", 0), Cmd("next", 0), Cmd("stop", 0), Cmd("pause", 0)}

\* main() is past its start-up calls
Up == th["main"].cmd.v # "startup"

NextQuit ==
    \/ \E t \in CmdThreads, c \in QuitCmds :
         /\ Up
         /\ \A x \in Threads \ {t, "main"} : th[x].pc \in Resting
         /\ Dispatch(t, c)
    \/ \E t \in CmdThreads : QuitSet(t)
    \/ PlaybackStep
    \/ MainStep
    \/ MainLoopExit
    \/ Signal
    \/ CleanupStep

SpecQuit == Init /\ [][NextQuit]_vars

\* SpecFail: commands entered one at a time once main() has started up,
\* where starting mpg123 can fail and a client can break off an exchange
FailCmds ==
    {Cmd("next", 0), Cmd("stop", 0), Cmd("play", 0), Cmd("pause", 0), Cmd("station", 1)}

NextFail ==
    \/ \E t \in CmdThreads, c \in FailCmds : Started /\ Serial(t) /\ Dispatch(t, c)
    \/ \E t \in CmdThreads : PsSpawnFail(t)
    \/ \E t \in CmdThreads : ExchangeFail(t)
    \/ PlaybackStep
    \/ MainStep

SpecFail == Init /\ [][NextFail]_vars

\* SpecStuck: commands entered one at a time while a decoder may stop
\* reacting to SIGTERM. Every thread that can take a step is scheduled in
\* the end, and a decoder that reacts to SIGTERM exits in the end
StuckCmds == {Cmd("next", 0), Cmd("stop", 0), Cmd("pause", 0)}

NextStuck ==
    \/ \E t \in CmdThreads, c \in StuckCmds : Serial(t) /\ Dispatch(t, c)
    \/ \E s \in Slots : ProcHang(s)
    \/ PlaybackStep
    \/ MainStep

SpecStuck ==
    Init /\ [][NextStuck]_vars /\ WF_vars(PlaybackStep) /\ WF_vars(MainStep)

\* SpecShutdown: quit and signals arrive while no handler is running, and
\* no command arrives while cleanup runs; commands are entered one at a time
Others(t) == \A x \in Threads \ {t} : th[x].pc \in Resting

NextShutdown ==
    \/ \E t \in CmdThreads, c \in QuitCmds : Serial(t) /\ Dispatch(t, c)
    \/ \E t \in CmdThreads : QuitSet(t)
    \/ PlaybackStep
    \/ MainStep
    \/ Others("main") /\ MainLoopExit
    \/ Others("main") /\ Signal
    \/ CleanupStep

SpecShutdown == Init /\ [][NextShutdown]_vars

\* SpecDie: commands entered one at a time while a decoder may exit on its
\* own at any moment
DieCmds == {Cmd("play", 0), Cmd("stop", 0), Cmd("pause", 0), Cmd("next", 0)}

NextDie ==
    \/ \E t \in CmdThreads, c \in DieCmds : Serial(t) /\ Dispatch(t, c)
    \/ \E s \in Slots : ProcDie(s)
    \/ PlaybackStep
    \/ MainStep

SpecDie == Init /\ [][NextDie]_vars

(* ---------------------------------------------------------------------- *)
(* Properties                                                              *)
(* ---------------------------------------------------------------------- *)

\* a decoder process that is running: started and not yet exited
Live(s) == procs[s].st \in {"live", "term", "deaf"}
LiveSet == {s \in Slots : Live(s)}

\* thread t is inside a handler (it has entered one and not yet returned)
InHandler(t) == th[t].pc \notin Resting \cup {"done"}

\* no handler is running and every response has been sent
Quiet == \A t \in Threads : th[t].pc \in Resting

\* process_command(v ...) has just returned on thread t after running with
\* no other handler beside it
Ran(t, v) == th[t].pc = "done" /\ th[t].alone /\ th[t].cmd.v = v

\* volume and station index after command c, run on its own from st
SeqApply(st, c) ==
    LET L == Len(playlist) IN
    CASE c.v = "next" /\ L > 0 -> [st EXCEPT !.ci = (st.ci + 1) % L]
      [] c.v = "prev" /\ L > 0 -> [st EXCEPT !.ci = (st.ci - 1) % L]
      [] c.v = "station" /\ c.a >= 1 /\ L > 0 -> [st EXCEPT !.ci = (c.a - 1) % L]
      [] c.v = "vol+" -> [st EXCEPT !.cv = Max(0, Min(100, st.cv + c.a))]
      [] c.v = "vol-" -> [st EXCEPT !.cv = Max(0, Min(100, st.cv - c.a))]
      [] OTHER -> st

\* the results of running the commands hist[i], i \in I, one after the other
\* from st, in every order
RECURSIVE SerialOutcomes(_, _)
SerialOutcomes(st, I) ==
    IF I = {} THEN {st}
    ELSE UNION {SerialOutcomes(SeqApply(st, hist[i]), I \ {i}) : i \in I}

\* volume and station index once main() has started up: set_volume(50) from 50
StartState == [cv |-> Max(0, Min(100, InitVolume + InitVolume)), ci |-> 0]

\* C1: whenever all commands entered so far have returned, volume and
\* station index are what some serial order of those commands produces
\* (SpecRace: the commands of two threads, interleaved at will)
C1_Linearizable ==
    Quiet /\ Started =>
        [cv |-> current_volume, ci |-> current_index]
            \in SerialOutcomes(StartState, 1..Len(hist))

\* C2: at most one thread is inside a handler at any time (SpecRace)
C2_MutualExclusion ==
    Cardinality({t \in Threads : InHandler(t)}) <= 1

\* C3: at most one decoder process is running, and a running decoder is the
\* one mpg123_proc refers to, or the one about to be stored there (SpecRace)
C3_OneLiveDecoder ==
    /\ Cardinality(LiveSet) <= 1
    /\ \A s \in LiveSet :
         \/ mpg123_proc = s
         \/ \E t \in Threads : th[t].pc = "ps_assign" /\ th[t].p = s

\* C4: when no switch is in progress, a line read from the pipe of a decoder
\* other than the current one changes no field of current_info (SpecMeta)
C4_NoStaleMetadata ==
    [][\A s \in Slots :
          (/\ Quiet
           /\ mpg123_proc # None
           /\ mpg123_proc # s
           /\ procs'[s].buf < procs[s].buf)
          => current_info' = current_info]_vars

\* C5: the volume is always an integer from 0 to 100 (SpecVol)
C5_VolumeInRange == current_volume \in 0..100

C5_Witness ==
    \E t \in CmdThreads :
        /\ Ran(t, "vol-")
        /\ th[t].cmd.a = 1000
        /\ th[t].pre.cv = 100
        /\ current_volume = 0

\* C6: a volume command that ran alone from volume v leaves min(100, v+k),
\* max(0, v-k) or k clamped to 0..100, and answers with the stored volume
\* (SpecVol)
C6_VolumeCommand ==
    \A t \in CmdThreads :
        th[t].pc = "done" /\ th[t].alone
            /\ th[t].cmd.v \in {"vol+", "vol-", "vol="} =>
        LET v == th[t].pre.cv
            k == th[t].cmd.a
        IN  /\ current_volume =
                 CASE th[t].cmd.v = "vol+" -> Min(100, v + k)
                   [] th[t].cmd.v = "vol-" -> Max(0, v - k)
                   [] OTHER -> Max(0, Min(100, k))
            /\ th[t].resp = Ok("volume", current_volume)

C6_Witness ==
    \E t \in CmdThreads :
        /\ Ran(t, "vol+")
        /\ th[t].cmd.a = 50
        /\ th[t].pre.cv = 60
        /\ current_volume = 100
        /\ th[t].resp = Ok("volume", 100)

\* C7: next, prev and station n that ran alone with a non-empty playlist of
\* length L leave the index at (i+1) mod L, (i-1) mod L and (n-1) mod L, and
\* have started exactly one decoder, for the station at that index, which is
\* the only one running (Spec)
C7_StationIndex ==
    \A t \in CmdThreads :
        th[t].pc = "done" /\ th[t].alone /\ th[t].resp.ok
            /\ th[t].cmd.v \in {"next", "prev", "station"}
            /\ th[t].pl # <<>> =>
        LET L == Len(th[t].pl)
            target == CASE th[t].cmd.v = "next" -> th[t].pre.ci + 1
                        [] th[t].cmd.v = "prev" -> th[t].pre.ci - 1
                        [] OTHER -> th[t].cmd.a - 1
        IN  /\ current_index = target % L
            /\ th[t].ns = 1
            /\ mpg123_proc = th[t].p
            /\ LiveSet = {th[t].p}
            /\ procs[th[t].p].st = "live"
            /\ procs[th[t].p].url = th[t].pl[current_index + 1]

C7_Witness ==
    \E t \in CmdThreads :
        /\ Ran(t, "next")
        /\ th[t].pl = Stations
        /\ th[t].pre.ci = 2
        /\ current_index = 0
        /\ th[t].ns = 1

\* C8: pause that ran alone has flipped playback_state (Spec)
C8_PauseToggles ==
    \A t \in CmdThreads :
        Ran(t, "pause") => playback_state = ~th[t].pre.ps

\* C9: after next or prev that ran alone with a non-empty playlist,
\* playback_state is true and the decoder of mpg123_proc is running (Spec)
C9_NextResumes ==
    \A t \in CmdThreads :
        (Ran(t, "next") \/ Ran(t, "prev")) /\ th[t].pl # <<>> =>
            /\ playback_state
            /\ mpg123_proc # None
            /\ procs[mpg123_proc].st = "live"

\* C10: when stop returns after running alone, playback_state is false and no
\* decoder is running; and if playback_state was false already, stop has
\* changed nothing and has started or signalled no process (Spec)
C10_StopStops ==
    [][\A t \in CmdThreads :
          (th[t].pc # "done" /\ (Ran(t, "stop"))') =>
              /\ (~playback_state /\ LiveSet = {})'
              /\ (th[t].pc = "idle" /\ ~playback_state
                    => UNCHANGED <<shared, playlist, procs>>)]_vars

\* C11: play that ran alone while playback_state was true has returned at
\* once and changed nothing; play that ran alone while it was false, with a
\* non-empty playlist, has set playback_state and started exactly one
\* decoder, for the station at current_index, which is the only one running
\* and the one mpg123_proc refers to (Spec)
C11_PlayIdempotent ==
    [][\A t \in CmdThreads :
          (th[t].pc # "done" /\ (Ran(t, "play"))') =>
              /\ playback_state =>
                    /\ th[t].pc = "idle"
                    /\ UNCHANGED <<shared, playlist, procs>>
              /\ (~th[t].pre.ps /\ th[t].pc # "idle" /\ th[t].pl # <<>>) =>
                    (/\ playback_state
                     /\ current_index = th[t].pre.ci % Len(th[t].pl)
                     /\ th[t].ns = 1
                     /\ mpg123_proc = th[t].p
                     /\ LiveSet = {th[t].p}
                     /\ procs[th[t].p].st = "live"
                     /\ procs[th[t].p].url = th[t].pl[current_index + 1])']_vars

C11_Witness ==
    \E t \in CmdThreads :
        /\ Ran(t, "play")
        /\ ~th[t].pre.ps
        /\ th[t].ns = 1
        /\ playback_state
        /\ mpg123_proc = th[t].p
        /\ procs[th[t].p].st = "live"

\* the words process_command knows
KnownWords ==
    {"play", "p", "stop", "s", "pause", "next", "n", "prev", "previous",
     "station", "volume", "v", "status", "info", "list", "quit", "exit"}

\* a token that is no number: a character that is neither digit nor sign,
\* or no digit at all
NonNumeric(tok) ==
    /\ tok # <<>>
    /\ \/ \E i \in 1..Len(tok) : tok[i] \notin Digits \cup {"+", "-"}
       \/ \A i \in 1..Len(tok) : tok[i] \notin Digits

\* a blank command, an unknown word, station n with n < 1, station or
\* volume with an argument that is no number
UserError(raw) ==
    \/ raw.verb = ""
    \/ raw.verb \notin KnownWords
    \/ /\ raw.verb = "station"
       /\ raw.arg # <<>>
       /\ NonNumeric(raw.arg) \/ IntVal(raw.arg) < 1
    \/ /\ raw.verb \in {"volume", "v"}
       /\ NonNumeric(raw.arg)

\* C12: a command that is a user error is answered with an ERROR in the
\* step that receives it, and that step changes no global, starts and
\* signals no process (SpecCmd)
C12_ErrorsChangeNothing ==
    [][\A t \in CmdThreads :
          th[t].pc = "idle" /\ th'[t].pc # "idle" =>
              \A raw \in RawCmds :
                  (UserError(raw) /\ Receive(t, raw)) =>
                      /\ th'[t].pc = "done"
                      /\ ~th'[t].resp.ok
                      /\ UNCHANGED <<shared, playlist, procs>>]_vars

C12_Witness ==
    \E t \in CmdThreads :
        /\ th[t].pc = "done"
        /\ th[t].cmd = Cmd("station", 0)
        /\ ~th[t].resp.ok
        /\ mpg123_proc # None
        /\ procs[mpg123_proc].st = "live"

\* C13: status, info and list are answered with OK in the step that
\* receives them, and that step changes no global (station index, volume,
\* playback_state, mpg123_proc, current_info), no process and not the
\* playlist (SpecCmd)
C13_PureReads ==
    [][\A t \in CmdThreads :
          th[t].pc = "idle" /\ th'[t].pc # "idle" =>
              \A w \in {"status", "info", "list"} :
                  Receive(t, Raw(w, <<>>)) =>
                      /\ th'[t].pc = "done"
                      /\ th'[t].resp.ok
                      /\ UNCHANGED <<shared, playlist, procs>>]_vars

C13_Witness ==
    \E t \in CmdThreads :
        /\ th[t].pc = "done"
        /\ th[t].cmd.v = "info"
        /\ th[t].resp = Ok("info", 0)
        /\ mpg123_proc # None
        /\ procs[mpg123_proc].st = "live"
        /\ current_info.stream_url = procs[mpg123_proc].url

\* C14: once running is false, a handler entered after that changes neither
\* playback_state, station index, mpg123_proc, volume nor current_info and
\* starts no decoder; and when cleanup has run and main() ends, no decoder
\* is running (SpecQuit)
C14_ShutdownOrdering ==
    [][/\ \A t \in Threads \ {"main"} :
            (th[t].late /\ th'[t] # th[t]) =>
                /\ UNCHANGED <<playback_state, current_index, mpg123_proc,
                               current_volume, current_info>>
                /\ \A s \in Slots : procs'[s].st = "live" => procs[s].st = "live"
       /\ (th["main"].pc # "exited" /\ th'["main"].pc = "exited") =>
            \A s \in Slots : procs'[s].st \notin {"live", "term"}]_vars

\* C15: whenever the playlist file is non-empty, current_index is an index
\* into it (Spec, where the file is edited between and during commands)
C15_IndexInRange ==
    playlist # <<>> => current_index \in 0..(Len(playlist) - 1)

\* C16: whenever no handler is running, playback_state is true iff
\* mpg123_proc refers to a running decoder; and when stop, or pause that
\* ended with playback_state false, has returned, mpg123_proc is None (Spec)
C16_StateMatchesHandle ==
    /\ Quiet =>
          (playback_state <=> (mpg123_proc # None /\ procs[mpg123_proc].st = "live"))
    /\ \A t \in CmdThreads :
          (Ran(t, "stop") \/ (Ran(t, "pause") /\ ~playback_state)) =>
              mpg123_proc = None

\* C17: when a command that ran alone returns, no decoder that was sent
\* SIGTERM is still running or waiting to be reaped, and at most one
\* decoder is running (Spec)
C17_TerminatedAreReaped ==
    \A t \in CmdThreads :
        th[t].pc = "done" /\ th[t].alone =>
            /\ \A s \in Slots : procs[s].st \notin {"term", "exited"}
            /\ Cardinality(LiveSet) <= 1

\* C20: play, pause, next, prev and station n that ran alone, called
\* play_stream and found the playlist empty are answered with an error,
\* have started no decoder and have left playback_state, station index,
\* mpg123_proc and current_info as they were (Spec)
C20_EmptyPlaylistRefused ==
    \A t \in CmdThreads :
        (/\ th[t].pc = "done"
         /\ th[t].alone
         /\ th[t].cmd.v \in {"play", "pause", "next", "prev", "station"}
         /\ th[t].ret # ""
         /\ th[t].pl = <<>>) =>
            /\ ~th[t].resp.ok
            /\ th[t].ns = 0
            /\ playback_state = th[t].pre.ps
            /\ current_index = th[t].pre.ci
            /\ mpg123_proc = th[t].pre.mp
            /\ current_info.stream_url = th[t].pre.url

\* the handler of thread t ran alone and was left by the exception of a
\* failed Popen
SpawnFailed(t) ==
    /\ th[t].pc \in {"done", "dead"}
    /\ th[t].alone
    /\ th[t].resp = Err("exception")

\* C18: when a command whose decoder could not be started has ended, the
\* playback state is the one the command started from (flag, station index,
\* metadata stream, handle and the state of its process) or the complete
\* state after the switch (handle on a running decoder for the station at
\* current_index, metadata for that stream) (SpecFail)
C18_SpawnFailureAtomic ==
    \A t \in CmdThreads :
        SpawnFailed(t) =>
            \/ /\ playback_state = th[t].pre.ps
               /\ current_index = th[t].pre.ci
               /\ current_info.stream_url = th[t].pre.url
               /\ mpg123_proc = th[t].pre.mp
               /\ mpg123_proc # None => procs[mpg123_proc].st = th[t].pre.st
            \/ /\ mpg123_proc # None
               /\ procs[mpg123_proc].st = "live"
               /\ procs[mpg123_proc].url = th[t].url
               /\ current_info.stream_url = th[t].url

\* C19: no listener thread is ever ended by a failed command or a failed
\* exchange, and the daemon keeps running (SpecFail)
C19_ListenersSurvive ==
    /\ running
    /\ \A t \in CmdThreads : th[t].pc # "dead"

\* C21: a command that has entered its handler leaves it in the end, also
\* when the decoder it has to terminate does not react to SIGTERM
\* (SpecStuck)
C21_SwitchReturns ==
    \A t \in CmdThreads : InHandler(t) ~> ~InHandler(t)

\* the positions of main() inside cleanup
CleanupPcs == {"cl_run", "cl_chk", "cl_term", "cl_wait0", "cl_wait", "cl_sock", "cl_api"}

\* C22: after signal_handler has run cleanup, no step of the second cleanup
\* (from the finally block of main) changes a global or a process, both
\* listeners stay released, and it ends; and whenever main() ends, running
\* is false, no decoder is running and both listeners are released
\* (SpecShutdown)
C22_CleanupIdempotent ==
    [][/\ (/\ th["main"].ret = "exit_again"
           /\ th["main"].pc \in CleanupPcs
           /\ th'["main"] # th["main"]) =>
              /\ UNCHANGED <<shared, procs>>
              /\ th'["main"].pc \in CleanupPcs \cup {"exited"}
              /\ \A t \in CmdThreads : th[t].pc = "stopped" /\ th'[t].pc = "stopped"
       /\ (th["main"].pc # "exited" /\ th'["main"].pc = "exited") =>
              /\ ~running'
              /\ \A s \in Slots : procs'[s].st \notin {"live", "term", "deaf"}
              /\ \A t \in CmdThreads : th'[t].pc = "stopped"]_vars

C22_Witness ==
    /\ th["main"].pc = "cl_sock"
    /\ th["main"].ret = "exit_again"
    /\ mpg123_proc # None
    /\ procs[mpg123_proc].st = "none"
    /\ ~running
    /\ LiveSet = {}

\* C23: when station n that ran alone has answered OK, the number in its
\* answer is current_index + 1 (Spec)
C23_StationResponse ==
    \A t \in CmdThreads :
        Ran(t, "station") /\ th[t].resp.ok =>
            th[t].resp.n = current_index + 1

\* C24: when play that ran alone returns OK, having started while
\* playback_state was true and the decoder of mpg123_proc had exited, and
\* the playlist is not empty, then mpg123_proc refers to a running decoder
\* for the station at current_index (SpecDie)
C24_PlayRecovers ==
    [][\A t \in CmdThreads :
          (/\ th[t].pc # "done"
           /\ (Ran(t, "play"))'
           /\ th'[t].resp.ok
           /\ th'[t].pre.ps
           /\ th'[t].pre.st = "exited"
           /\ playlist # <<>>) =>
              (/\ mpg123_proc # None
               /\ procs[mpg123_proc].st = "live"
               /\ current_index < Len(playlist)
               /\ procs[mpg123_proc].url = playlist[current_index + 1])']_vars

====
